---- MODULE Spec2Model ----
(***************************************************************************)
(* One node of the replicated key/value store (storage/services.py,        *)
(* storage/replication.py, storage/views.py).                              *)
(*                                                                         *)
(* Keys are strings, modelled as non-empty sequences over a small          *)
(* alphabet and compared lexicographically as the table's ORDER BY does.   *)
(* A row is [value, version]; the table and the entry cache are functions  *)
(* whose DOMAIN is the set of keys that have a row / a cached snapshot.    *)
(* A replicated write is a sequence of steps: the local mutation, one step *)
(* per outbound attempt, and the return of the handler.                    *)
(***************************************************************************)
EXTENDS Integers, Sequences, FiniteSets, TLC

\* ------------------------------------------------------------------ bounds
\* Largest number of configured peers (len(settings.REPLICA_NODES)).
MaxPeers == 2
\* Writes to a key stop once its version has reached this value.
MaxVersion == 2
\* The same, in the histories that consist of put_value calls only.
MaxPuts == 4
\* Largest number of configured peers in the histories that look at the
\* local effect of batch_put.
MaxUpsertPeers == 1

\* The peers of the node whose peers' state is followed.
ClusterPeers == 3

\* The alphabet of key characters, the keys the write operations use,
\* and the values they store.
Chars == {1, 2}
Keys == {<<1>>, <<1, 2>>}
Values == {1, 2}
\* The keys of the histories of batch_put calls: one more, so that a batch
\* can span two chunks.
BatchKeys == Keys \cup {<<2>>}
\* The keys of the table that read_range pages through, and the strings its
\* start, end and cursor arguments are drawn from.
RangeKeys == UNION {[1..n -> Chars] : n \in 1..2}

\* ------------------------------------------------------- program constants
RETRY_ATTEMPTS == 3
\* The three size limits are scaled down (source: 10000, 10000, 1000) so
\* that the cap and the chunking are exercised by small inputs.
MAX_RANGE_SIZE == 2
MAX_BATCH_SIZE == 3
BATCH_CHUNK_SIZE == 2

\* A requests.RequestException (timeout, connection refused) in place of a
\* status code.
NetErr == 0
\* What one outbound call can produce.
Responses == {NetErr, 200, 201, 204, 404, 500}

VARIABLES
    nPeers,     \* number of configured peers; peers are 1..nPeers in list order
    table,      \* KeyValueEntry rows, key -> [value, version]
    cache,      \* entry cache, key -> cached row snapshot
    health,     \* health cache, peer -> BOOLEAN
    pc,         \* "idle"; "replicating" while a write handler is running;
                \* "returned" when a call has returned and its response is due
    call,       \* the last call: [op, key, value, items, replicate, results]
    txn,        \* <<table at transaction.atomic() entry>> while put_value runs
    repl,       \* loop state of the fan-out: [node, attempt, successful, failed]
    ret,        \* what the last finished call returned or raised
    pre,        \* history: the table and the cache when the last call started
    puts,       \* history: key -> number of successful put_value calls
    scan,       \* a client paging through read_range
    wire,       \* the request being handled and its outbound calls:
                \* [marker, sent, resp]
    cluster,    \* the last report of get_cluster_status
    procs       \* concurrent writers: process -> its position and locals

vars == <<nPeers, table, cache, health, pc, call, txn, repl, ret, pre, puts,
          scan, wire, cluster, procs>>

\* ------------------------------------------------------------------ helpers
Min(a, b) == IF a < b THEN a ELSE b

Range(s) == {s[i] : i \in 1..Len(s)}

\* f with key k removed.
Without(f, k) == [x \in DOMAIN f \ {k} |-> f[x]]

\* Faulty variant of CacheDelete: the entry is left in the cache.
CacheDeleteSkipped(c, k) == c

\* cache.delete(_get_cache_key(k)) and cache.delete_many(...) on the cache c.
CacheDelete(c, k) == Without(c, k)

CacheDeleteMany(c, S) == [x \in DOMAIN c \ S |-> c[x]]

\* Lexicographic order on strings: key__lt / ORDER BY key.
RECURSIVE StrLess(_, _)
StrLess(s, t) ==
    IF s = <<>> THEN t # <<>>
    ELSE IF t = <<>> THEN FALSE
    ELSE IF Head(s) # Head(t) THEN Head(s) < Head(t)
    ELSE StrLess(Tail(s), Tail(t))

StrLeq(s, t) == s = t \/ StrLess(s, t)

Row(v, n) == [value |-> v, version |-> n]

\* A row as the caller sees it.
Entry(k, r) == [key |-> k, value |-> r.value, version |-> r.version]

NoCall == [op |-> "none", key |-> <<>>, value |-> 0, items |-> <<>>,
           replicate |-> FALSE, results |-> <<>>]

NoRepl == [node |-> 1, attempt |-> 0, successful |-> <<>>, failed |-> <<>>]

NoRet == [ok |-> TRUE, flag |-> FALSE, nodes |-> 0, entries |-> <<>>,
          error |-> "none"]

NoPre == [table |-> <<>>, cache |-> <<>>]

Snapshot == [table |-> table, cache |-> cache]

\* No request in progress: no X-Replication header seen, no outbound call
\* made, no response received; health is the health cache as the request
\* found it.
NoWire == [marker |-> FALSE, sent |-> <<>>, resp |-> NetErr, health |-> <<>>]

\* No result of the health monitor at hand: neither a status report nor the
\* result of a single check.
NoStatus == [reported |-> FALSE, checked |-> FALSE]

\* A process that has not started its operation.
NoProc == [op |-> "none", pc |-> "idle", key |-> <<>>, value |-> 0,
           items |-> <<>>, existing |-> <<>>, ret |-> NoRet]

\* The concurrent writers.
Procs == {1, 2}

\* ------------------------------------------------------------- replication
\* Faulty variant of get_required_replicas: the local node is not counted
\* among the nodes.
required_replicas_of_peers == (nPeers \div 2) + 1

\* get_required_replicas
get_required_replicas == ((nPeers + 1) \div 2) + 1

\* is_replication_enabled
is_replication_enabled == nPeers > 0

\* The early return of replicate_with_failover / replicate_batch_put.
ReplicationSkipped == ~call.replicate \/ ~is_replication_enabled

\* Faulty variant of PointSuccess: "not found" is a failure.
PointSuccessWithout404(status) == status \in {200, 201, 204}

\* The status test of replicate_with_failover.
PointSuccess(status) == status \in {200, 201, 204, 404}

\* The status test of replicate_batch_put.
BatchSuccess(status) == status = 200

\* Faulty variant of AttemptStep: a peer is given up after its first failed
\* attempt.
AttemptStepNoRetry(success) ==
    IF success
    THEN /\ repl' = [repl EXCEPT !.node = @ + 1, !.attempt = 0,
                                 !.successful = Append(@, repl.node)]
         /\ health' = health
    ELSE /\ repl' = [repl EXCEPT !.node = @ + 1, !.attempt = 0,
                                 !.failed = Append(@, repl.node)]
         /\ health' = (repl.node :> FALSE) @@ health

\* Faulty variant of AttemptStep: a peer recorded as failed is not marked
\* unhealthy.
AttemptStepNoMark(success) ==
    /\ health' = health
    /\ IF success
       THEN repl' = [repl EXCEPT !.node = @ + 1, !.attempt = 0,
                                 !.successful = Append(@, repl.node)]
       ELSE IF repl.attempt + 1 < RETRY_ATTEMPTS
       THEN repl' = [repl EXCEPT !.attempt = @ + 1]
       ELSE repl' = [repl EXCEPT !.node = @ + 1, !.attempt = 0,
                                 !.failed = Append(@, repl.node)]

\* One pass through the body of the retry loop for the current peer; a peer
\* whose last attempt failed is recorded as failed and marked unhealthy.
AttemptStep(success) ==
    IF success
    THEN /\ repl' = [repl EXCEPT !.node = @ + 1, !.attempt = 0,
                                 !.successful = Append(@, repl.node)]
         /\ health' = health
    ELSE IF repl.attempt + 1 < RETRY_ATTEMPTS
    THEN /\ repl' = [repl EXCEPT !.attempt = @ + 1]
         /\ health' = health
    ELSE /\ repl' = [repl EXCEPT !.node = @ + 1, !.attempt = 0,
                                 !.failed = Append(@, repl.node)]
         /\ health' = (repl.node :> FALSE) @@ health

\* One requests.put / requests.delete of replicate_with_failover.
ReplicateAttempt(resp) ==
    /\ pc = "replicating"
    /\ call.op \in {"put", "delete"}
    /\ ~ReplicationSkipped
    /\ repl.node <= nPeers
    /\ AttemptStep(resp # NetErr /\ PointSuccess(resp))
    /\ UNCHANGED <<nPeers, table, cache, pc, call, txn, ret, pre, puts, scan,
                   cluster, procs>>

\* One requests.post of replicate_batch_put.
ReplicateBatchAttempt(resp) ==
    /\ pc = "replicating"
    /\ call.op = "batch"
    /\ ~ReplicationSkipped
    /\ repl.node <= nPeers
    /\ AttemptStep(resp # NetErr /\ BatchSuccess(resp))
    /\ UNCHANGED <<nPeers, table, cache, pc, call, txn, ret, pre, puts, scan,
                   cluster, procs>>

\* (has_quorum, successful_nodes) as the replicate_* functions return it.
has_quorum ==
    IF ReplicationSkipped THEN TRUE
    ELSE Len(repl.successful) + 1 >= get_required_replicas

successful_nodes == IF ReplicationSkipped THEN <<>> ELSE repl.successful

\* Faulty variant of ReplicationReturned: the fan-out does not return once
\* a peer has failed.
ReplicationReturnedUnlessFailed ==
    \/ ReplicationSkipped
    \/ repl.node > nPeers /\ repl.failed = <<>>

\* Faulty variant of ReplicationReturned: the fan-out stops as soon as the
\* quorum is reached.
ReplicationReturnedOnQuorum ==
    \/ ReplicationSkipped
    \/ repl.node > nPeers
    \/ Len(repl.successful) + 1 >= get_required_replicas

\* The fan-out has returned to the handler.
ReplicationReturned == ReplicationSkipped \/ repl.node > nPeers

\* The exception the handlers raise when quorum was not reached.
QuorumFailure ==
    [ok |-> FALSE, flag |-> FALSE, nodes |-> Len(successful_nodes) + 1,
     entries |-> <<>>, error |-> "quorum"]

\* ------------------------------------------------------------------ put_value
\* Faulty variant of UpdateOrCreate: the update leaves the version alone.
UpdateOrCreateSameVersion(tbl, k, v) ==
    IF k \in DOMAIN tbl
    THEN [tbl EXCEPT ![k] = Row(v, @.version)]
    ELSE (k :> Row(v, 1)) @@ tbl

\* The filtered update with F("version") + 1, or the create with version 1.
UpdateOrCreate(tbl, k, v) ==
    IF k \in DOMAIN tbl
    THEN [tbl EXCEPT ![k] = Row(v, @.version + 1)]
    ELSE (k :> Row(v, 1)) @@ tbl

\* Faulty variant of PutRollback: the exception leaves the update in place.
PutNoRollback == table

\* The state of the table when put_value leaves its transaction.atomic()
\* block by the exception.
PutRollback == txn[1]

\* put_value up to the call of replicate_put.
PutValue(k, v, r) ==
    /\ pc = "idle"
    /\ txn' = <<table>>
    /\ table' = UpdateOrCreate(table, k, v)
    /\ call' = [op |-> "put", key |-> k, value |-> v, items |-> <<>>,
                replicate |-> r, results |-> <<>>]
    /\ repl' = NoRepl
    /\ pre' = Snapshot
    /\ pc' = "replicating"
    /\ UNCHANGED <<nPeers, cache, health, ret, puts, scan, cluster, procs>>

\* put_value from the return of replicate_put.
PutReturn ==
    /\ pc = "replicating"
    /\ call.op = "put"
    /\ ReplicationReturned
    /\ IF has_quorum
       THEN /\ table' = table
            /\ cache' = CacheDelete(cache, call.key)
            /\ ret' = [ok |-> TRUE, flag |-> call.key \notin DOMAIN txn[1],
                       nodes |-> Len(successful_nodes) + 1,
                       entries |-> <<Entry(call.key, table[call.key])>>,
                       error |-> "none"]
       ELSE /\ table' = PutRollback
            /\ cache' = cache
            /\ ret' = QuorumFailure
    /\ txn' = <<>>
    /\ repl' = NoRepl
    /\ pc' = "returned"
    /\ UNCHANGED <<nPeers, health, call, pre, scan, wire, cluster, procs>>

\* ------------------------------------------------------------------ read_value
\* What read_value returns for k: <<entry>>, or <<>> for DoesNotExist.
read_value(k) ==
    IF k \in DOMAIN cache THEN <<Entry(k, cache[k])>>
    ELSE IF k \in DOMAIN table THEN <<Entry(k, table[k])>>
    ELSE <<>>

ReadValue(k) ==
    /\ pc = "idle"
    /\ ret' = [ok |-> read_value(k) # <<>>, flag |-> FALSE, nodes |-> 0,
               entries |-> read_value(k),
               error |-> IF read_value(k) # <<>> THEN "none" ELSE "not_found"]
    /\ cache' = IF k \notin DOMAIN cache /\ k \in DOMAIN table
                THEN (k :> table[k]) @@ cache
                ELSE cache
    /\ call' = [NoCall EXCEPT !.op = "read", !.key = k]
    /\ pre' = Snapshot
    /\ pc' = "returned"
    /\ UNCHANGED <<nPeers, table, health, txn, repl, puts, scan, wire,
                   cluster, procs>>

\* A cached entry reaches its CACHE_TIMEOUT.
CacheExpire(k) ==
    /\ pc = "idle"
    /\ k \in DOMAIN cache
    /\ cache' = Without(cache, k)
    /\ UNCHANGED <<nPeers, table, health, pc, call, txn, repl, ret, pre,
                   puts, scan, wire, cluster, procs>>

\* ---------------------------------------------------------------- delete_value
\* Faulty variant of deleted: the count of deleted rows is not looked at.
deleted_unchecked(k) == TRUE

\* Whether filter(key=k).delete() deleted a row.
deleted(k) == k \in DOMAIN table

\* delete_value up to the call of replicate_delete, or to its return when no
\* row was deleted.
DeleteValue(k, r) ==
    /\ pc = "idle"
    /\ pre' = Snapshot
    /\ call' = [op |-> "delete", key |-> k, value |-> 0, items |-> <<>>,
                replicate |-> r, results |-> <<>>]
    /\ IF deleted(k)
       THEN /\ table' = Without(table, k)
            /\ repl' = NoRepl
            /\ pc' = "replicating"
            /\ ret' = ret
       ELSE /\ table' = table
            /\ repl' = repl
            /\ pc' = "returned"
            /\ ret' = [ok |-> TRUE, flag |-> FALSE, nodes |-> 0,
                       entries |-> <<>>, error |-> "none"]
    /\ UNCHANGED <<nPeers, cache, health, txn, puts, scan, cluster, procs>>

\* delete_value from the return of replicate_delete.
DeleteReturn ==
    /\ pc = "replicating"
    /\ call.op = "delete"
    /\ ReplicationReturned
    /\ IF has_quorum
       THEN /\ cache' = CacheDelete(cache, call.key)
            /\ ret' = [ok |-> TRUE, flag |-> TRUE,
                       nodes |-> Len(successful_nodes) + 1, entries |-> <<>>,
                       error |-> "none"]
       ELSE /\ cache' = cache
            /\ ret' = QuorumFailure
    /\ repl' = NoRepl
    /\ pc' = "returned"
    /\ UNCHANGED <<nPeers, table, health, call, txn, pre, puts, scan, wire,
                   cluster, procs>>

\* ------------------------------------------------------------------- batch_put
ItemKeys(items) == {items[i].key : i \in 1..Len(items)}

KeySeq(items) == [i \in 1..Len(items) |-> items[i].key]

\* The value the batch carries for key k (keys are unique in a batch).
ItemValue(items, k) == items[CHOOSE i \in 1..Len(items) : items[i].key = k].value

\* to_create and to_update of one chunk, each in chunk order.
ToCreate(tbl, chunk) ==
    SelectSeq(chunk, LAMBDA it : it.key \notin DOMAIN tbl)

ToUpdate(tbl, chunk) ==
    SelectSeq(chunk, LAMBDA it : it.key \in DOMAIN tbl)

\* chunk_results: the created entries, then the updated ones.
ChunkResults(tbl, chunk) == KeySeq(ToCreate(tbl, chunk)) \o KeySeq(ToUpdate(tbl, chunk))

\* Faulty variant of ApplyChunk: an update leaves the version alone.
ApplyChunkSameVersion(tbl, chunk) ==
    LET created == ItemKeys(ToCreate(tbl, chunk))
        updated == ItemKeys(ToUpdate(tbl, chunk))
    IN  [k \in DOMAIN tbl \cup created |->
            IF k \in created THEN Row(ItemValue(chunk, k), 1)
            ELSE IF k \in updated
            THEN Row(ItemValue(chunk, k), tbl[k].version)
            ELSE tbl[k]]

\* The table after the chunk's bulk_create and bulk_update.
ApplyChunk(tbl, chunk) ==
    LET created == ItemKeys(ToCreate(tbl, chunk))
        updated == ItemKeys(ToUpdate(tbl, chunk))
    IN  [k \in DOMAIN tbl \cup created |->
            IF k \in created THEN Row(ItemValue(chunk, k), 1)
            ELSE IF k \in updated
            THEN Row(ItemValue(chunk, k), tbl[k].version + 1)
            ELSE tbl[k]]

\* The loop over the chunks: the table and all_results after it.
RECURSIVE ApplyChunks(_, _, _)
ApplyChunks(tbl, items, results) ==
    IF items = <<>> THEN [table |-> tbl, results |-> results]
    ELSE LET n == Min(BATCH_CHUNK_SIZE, Len(items))
             chunk == SubSeq(items, 1, n)
         IN  ApplyChunks(ApplyChunk(tbl, chunk),
                         SubSeq(items, n + 1, Len(items)),
                         results \o ChunkResults(tbl, chunk))

\* The item lists over the keys K that BatchPutSerializer.validate_items
\* lets through.
ValidBatches(K) ==
    {items \in UNION {[1..n -> [key : K, value : Values]] :
                          n \in 1..MAX_BATCH_SIZE} :
        Cardinality(ItemKeys(items)) = Len(items)}

\* batch_put up to the call of replicate_batch_put.
BatchPut(items, r) ==
    /\ pc = "idle"
    /\ LET done == ApplyChunks(table, items, <<>>)
       IN  /\ table' = done.table
           /\ call' = [op |-> "batch", key |-> <<>>, value |-> 0,
                       items |-> items, replicate |-> r,
                       results |-> done.results]
    /\ repl' = NoRepl
    /\ pre' = Snapshot
    /\ pc' = "replicating"
    /\ UNCHANGED <<nPeers, cache, health, txn, ret, puts, scan, cluster,
                   procs>>

\* batch_put from the return of replicate_batch_put.
BatchReturn ==
    /\ pc = "replicating"
    /\ call.op = "batch"
    /\ ReplicationReturned
    /\ IF has_quorum
       THEN /\ cache' = CacheDeleteMany(cache, ItemKeys(call.items))
            /\ ret' = [ok |-> TRUE, flag |-> FALSE,
                       nodes |-> Len(successful_nodes) + 1,
                       entries |-> [i \in 1..Len(call.results) |->
                                      Entry(call.results[i],
                                            table[call.results[i]])],
                       error |-> "none"]
       ELSE /\ cache' = cache
            /\ ret' = QuorumFailure
    /\ repl' = NoRepl
    /\ pc' = "returned"
    /\ UNCHANGED <<nPeers, table, health, call, txn, pre, puts, scan, wire,
                   cluster, procs>>

\* The view has sent the response of the call that returned.
Respond ==
    /\ pc = "returned"
    /\ pc' = "idle"
    /\ call' = NoCall
    /\ ret' = NoRet
    /\ pre' = NoPre
    /\ wire' = NoWire
    /\ UNCHANGED <<nPeers, table, cache, health, txn, repl, puts, scan,
                   cluster, procs>>

\* ------------------------------------------------------------------ read_range
\* Faulty variant of EffectiveLimit: a given limit is not capped.
EffectiveLimitUncapped(limit) ==
    IF limit = <<>> THEN MAX_RANGE_SIZE ELSE limit[1]

\* The limit in force: limit is <<>> for None, <<n>> for the integer n >= 0.
EffectiveLimit(limit) ==
    IF limit = <<>> THEN MAX_RANGE_SIZE ELSE Min(limit[1], MAX_RANGE_SIZE)

\* Faulty variant of RangeFilter: the cursor's own key is selected again.
RangeFilterFromCursor(tbl, start_key, end_key, cursor) ==
    {k \in DOMAIN tbl :
        /\ StrLeq(start_key, k)
        /\ StrLeq(k, end_key)
        /\ cursor # <<>> => StrLeq(cursor, k)}

\* The keys the filtered queryset selects; an absent or empty cursor (<<>>)
\* adds no filter.
RangeFilter(tbl, start_key, end_key, cursor) ==
    {k \in DOMAIN tbl :
        /\ StrLeq(start_key, k)
        /\ StrLeq(k, end_key)
        /\ cursor # <<>> => StrLess(cursor, k)}

\* order_by("key")
RECURSIVE OrderByKey(_)
OrderByKey(S) ==
    IF S = {} THEN <<>>
    ELSE LET m == CHOOSE x \in S : \A y \in S : StrLeq(x, y)
         IN  <<m>> \o OrderByKey(S \ {m})

\* Faulty variant of FetchCount: no extra row is requested.
FetchCountExact(lim) == lim

\* The number of rows the sliced queryset asks for: one more than the limit.
FetchCount(lim) == lim + 1

\* (entries, next_cursor, has_more); next_cursor is <<>> for None.
read_range(tbl, start_key, end_key, limit, cursor) ==
    LET lim == EffectiveLimit(limit)
        keys == OrderByKey(RangeFilter(tbl, start_key, end_key, cursor))
        rows == SubSeq(keys, 1, Min(FetchCount(lim), Len(keys)))
    IN  IF Len(rows) > lim
        THEN [entries |-> [i \in 1..lim |-> Entry(rows[i], tbl[rows[i]])],
              next_cursor |-> rows[lim + 1],
              has_more |-> TRUE]
        ELSE [entries |-> [i \in 1..Len(rows) |-> Entry(rows[i], tbl[rows[i]])],
              next_cursor |-> <<>>,
              has_more |-> FALSE]

NoPage == [entries |-> <<>>, next_cursor |-> <<>>, has_more |-> FALSE]

NoScan == [mode |-> "none", start |-> <<>>, end |-> <<>>, limit |-> <<>>,
           cursor |-> <<>>, page |-> NoPage, seen |-> <<>>, pages |-> 0]

PageKeys(page) == [i \in 1..Len(page.entries) |-> page.entries[i].key]

\* The limit query parameters: absent, or an integer up to one past the cap.
Limits == {<<>>} \cup {<<n>> : n \in 0..(MAX_RANGE_SIZE + 1)}

\* KeyValueRangeView.get with valid start and end: one call of read_range
\* by a client that has made none yet.
ReadRange(start_key, end_key, limit, cursor) ==
    /\ pc = "idle"
    /\ scan.mode = "none"
    /\ start_key # <<>> /\ end_key # <<>>
    /\ StrLeq(start_key, end_key)
    /\ LET page == read_range(table, start_key, end_key, limit, cursor)
       IN  scan' = [mode |-> "single", start |-> start_key, end |-> end_key,
                    limit |-> limit, cursor |-> cursor, page |-> page,
                    seen |-> PageKeys(page), pages |-> 1]
    /\ UNCHANGED <<nPeers, table, cache, health, pc, call, txn, repl, ret,
                   pre, puts, wire, cluster, procs>>

\* A client starts paging through [start_key, end_key]; it will continue
\* from the last key of each page (mode "last") or from the next_cursor of
\* each response (mode "next").
ScanFirst(start_key, end_key, limit, mode) ==
    /\ pc = "idle"
    /\ scan.mode = "none"
    /\ start_key # <<>> /\ end_key # <<>>
    /\ StrLeq(start_key, end_key)
    /\ limit # <<0>>
    /\ LET page == read_range(table, start_key, end_key, limit, <<>>)
       IN  scan' = [mode |-> mode, start |-> start_key, end |-> end_key,
                    limit |-> limit, cursor |-> <<>>, page |-> page,
                    seen |-> PageKeys(page), pages |-> 1]
    /\ UNCHANGED <<nPeers, table, cache, health, pc, call, txn, repl, ret,
                   pre, puts, wire, cluster, procs>>

\* The client requests the following page.
ScanNext ==
    /\ pc = "idle"
    /\ scan.mode \in {"last", "next"}
    /\ scan.page.has_more
    /\ LET cursor == IF scan.mode = "last"
                     THEN scan.page.entries[Len(scan.page.entries)].key
                     ELSE scan.page.next_cursor
           page == read_range(table, scan.start, scan.end, scan.limit, cursor)
       IN  scan' = [scan EXCEPT !.cursor = cursor, !.page = page,
                                !.seen = @ \o PageKeys(page),
                                !.pages = @ + 1]
    /\ UNCHANGED <<nPeers, table, cache, health, pc, call, txn, repl, ret,
                   pre, puts, wire, cluster, procs>>

\* ------------------------------------------------------------ specifications
\* The rows of the keys in K have versions below n.
VersionsBelow(K, n) == \A k \in K \cap DOMAIN table : table[k].version < n

\* The state of a node after construction, whatever its number of peers.
Fresh ==
    /\ table = <<>>
    /\ cache = <<>>
    /\ health = <<>>
    /\ pc = "idle"
    /\ call = NoCall
    /\ txn = <<>>
    /\ repl = NoRepl
    /\ ret = NoRet
    /\ pre = NoPre
    /\ puts = [k \in Keys |-> 0]
    /\ scan = NoScan
    /\ wire = NoWire
    /\ cluster = NoStatus
    /\ procs = [p \in Procs |-> NoProc]

Init ==
    /\ nPeers \in 0..MaxPeers
    /\ Fresh

\* Sequential histories of the point and batch operations on one node.
Next ==
    \/ \E k \in Keys, v \in Values, r \in BOOLEAN :
          VersionsBelow({k}, MaxVersion) /\ PutValue(k, v, r)
              /\ UNCHANGED wire
    \/ PutReturn /\ UNCHANGED puts
    \/ \E k \in Keys : ReadValue(k)
    \/ \E k \in Keys : CacheExpire(k)
    \/ \E k \in Keys, r \in BOOLEAN : DeleteValue(k, r) /\ UNCHANGED wire
    \/ DeleteReturn
    \/ \E items \in ValidBatches(Keys), r \in BOOLEAN :
          VersionsBelow(ItemKeys(items), MaxVersion) /\ BatchPut(items, r)
              /\ UNCHANGED wire
    \/ BatchReturn
    \/ \E resp \in Responses : ReplicateAttempt(resp) /\ UNCHANGED wire
    \/ \E resp \in Responses : ReplicateBatchAttempt(resp) /\ UNCHANGED wire
    \/ Respond

Spec == Init /\ [][Next]_vars

\* Histories of batch_put calls, with batches of more than one chunk.
NextBatch ==
    \/ \E items \in ValidBatches(BatchKeys), r \in BOOLEAN :
          VersionsBelow(ItemKeys(items), MaxVersion) /\ BatchPut(items, r)
              /\ UNCHANGED wire
    \/ BatchReturn
    \/ \E resp \in Responses : ReplicateBatchAttempt(resp) /\ UNCHANGED wire
    \/ Respond

SpecBatch == Init /\ [][NextBatch]_vars

\* The same histories on a node with fewer peers.
InitUpsert == Init /\ nPeers <= MaxUpsertPeers

SpecUpsert == InitUpsert /\ [][NextBatch]_vars

\* Histories of put_value calls only, with the successful ones counted.
CountedPutReturn ==
    /\ PutReturn
    /\ puts' = [puts EXCEPT ![call.key] = IF ret'.ok THEN @ + 1 ELSE @]

NextPuts ==
    \/ \E k \in Keys, v \in Values, r \in BOOLEAN :
          VersionsBelow({k}, MaxPuts) /\ PutValue(k, v, r)
              /\ UNCHANGED wire
    \/ CountedPutReturn
    \/ \E resp \in Responses : ReplicateAttempt(resp) /\ UNCHANGED wire
    \/ Respond

SpecPuts == Init /\ [][NextPuts]_vars

\* Range reads of a fixed table; any set of keys can have been put.
InitRange ==
    /\ nPeers = 0
    /\ table \in {[k \in S |-> Row(1, 1)] : S \in SUBSET RangeKeys}
    /\ cache = <<>>
    /\ health = <<>>
    /\ pc = "idle"
    /\ call = NoCall
    /\ txn = <<>>
    /\ repl = NoRepl
    /\ ret = NoRet
    /\ pre = NoPre
    /\ puts = [k \in Keys |-> 0]
    /\ scan = NoScan
    /\ wire = NoWire
    /\ cluster = NoStatus
    /\ procs = [p \in Procs |-> NoProc]

NextRange ==
    \/ \E a \in RangeKeys, b \in RangeKeys, l \in Limits,
          c \in RangeKeys \cup {<<>>} : ReadRange(a, b, l, c)
    \/ \E a \in RangeKeys, b \in RangeKeys, l \in Limits,
          m \in {"last", "next"} : ScanFirst(a, b, l, m)
    \/ ScanNext

SpecRange == InitRange /\ [][NextRange]_vars

\* ---------------------------------------------------------- concurrent writers
\* Two request handlers write at the same time. The table is the committed
\* state of a database with READ COMMITTED isolation and row locks: a
\* statement sees what was committed before it, and an UPDATE or INSERT that
\* meets a row another transaction has written waits for that transaction
\* to end. No peer is configured, so each transaction ends right after its
\* last statement.

\* The response of a view to what the service call returned or raised.
ViewResponse(op, r) ==
    IF r.error \in {"empty", "size", "duplicate"}
    THEN [status |-> 400, detail |-> r.error]
    ELSE IF r.error = "not_found"
    THEN [status |-> 404, detail |-> "none"]
    ELSE IF ~r.ok
    THEN [status |-> 500, detail |-> "Replication failed"]
    ELSE IF op = "put"
    THEN [status |-> IF r.flag THEN 201 ELSE 200, detail |-> "none"]
    ELSE IF op = "delete"
    THEN [status |-> IF r.flag THEN 204 ELSE 404, detail |-> "none"]
    ELSE [status |-> 200, detail |-> "none"]

\* The IntegrityError of an INSERT that meets the unique constraint on key.
IntegrityError ==
    [ok |-> FALSE, flag |-> FALSE, nodes |-> 0, entries |-> <<>>,
     error |-> "integrity"]

\* put_value of process p up to the create: the filtered update with
\* F("version") + 1 and, if it matched a row, the rest of the call.
ConcPutUpdate(p, k, v) ==
    /\ procs[p].pc = "idle"
    /\ IF k \in DOMAIN table
       THEN /\ table' = UpdateOrCreate(table, k, v)
            /\ cache' = CacheDelete(cache, k)
            /\ procs' = [procs EXCEPT ![p] =
                  [NoProc EXCEPT !.op = "put", !.pc = "done", !.key = k,
                                 !.value = v,
                                 !.ret = [NoRet EXCEPT !.nodes = 1,
                                            !.entries = <<Entry(k, table'[k])>>]]]
       ELSE /\ table' = table
            /\ cache' = cache
            /\ procs' = [procs EXCEPT ![p] =
                  [NoProc EXCEPT !.op = "put", !.pc = "creating", !.key = k,
                                 !.value = v]]
    /\ UNCHANGED <<nPeers, health, pc, call, txn, repl, ret, pre, puts, scan,
                   wire, cluster>>

\* put_value of process p from the create on.
ConcPutCreate(p) ==
    /\ procs[p].pc = "creating"
    /\ LET k == procs[p].key
           v == procs[p].value
       IN  IF k \notin DOMAIN table
           THEN /\ table' = (k :> Row(v, 1)) @@ table
                /\ cache' = CacheDelete(cache, k)
                /\ procs' = [procs EXCEPT ![p].pc = "done",
                      ![p].ret = [NoRet EXCEPT !.flag = TRUE, !.nodes = 1,
                                    !.entries = <<Entry(k, Row(v, 1))>>]]
           ELSE /\ table' = table
                /\ cache' = cache
                /\ procs' = [procs EXCEPT ![p].pc = "done",
                                          ![p].ret = IntegrityError]
    /\ UNCHANGED <<nPeers, health, pc, call, txn, repl, ret, pre, puts, scan,
                   wire, cluster>>

\* batch_put of process p, for a list of one chunk, up to the bulk fetch of
\* existing_entries: the versions of the chunk's keys that have a row.
ConcBatchFetch(p, items) ==
    /\ procs[p].pc = "idle"
    /\ Len(items) <= BATCH_CHUNK_SIZE
    /\ procs' = [procs EXCEPT ![p] =
          [NoProc EXCEPT !.op = "batch", !.pc = "fetched", !.items = items,
                         !.existing = [k \in ItemKeys(items) \cap DOMAIN table
                                          |-> table[k].version]]]
    /\ UNCHANGED <<nPeers, table, cache, health, pc, call, txn, repl, ret,
                   pre, puts, scan, wire, cluster>>

\* The table after bulk_create of the items whose keys were not fetched and
\* bulk_update of the others with the fetched version + 1.
BulkWrite(tbl, existing, chunk) ==
    LET created == ItemKeys(chunk) \ DOMAIN existing
        updated == ItemKeys(chunk) \cap DOMAIN existing \cap DOMAIN tbl
    IN  [k \in DOMAIN tbl \cup created |->
            IF k \in created THEN Row(ItemValue(chunk, k), 1)
            ELSE IF k \in updated
            THEN Row(ItemValue(chunk, k), existing[k] + 1)
            ELSE tbl[k]]

\* batch_put of process p from the partition into to_create and to_update on.
ConcBatchApply(p) ==
    /\ procs[p].pc = "fetched"
    /\ LET items == procs[p].items
           existing == procs[p].existing
       IN  IF \E k \in ItemKeys(items) \ DOMAIN existing : k \in DOMAIN table
           THEN /\ table' = table
                /\ cache' = cache
                /\ procs' = [procs EXCEPT ![p].pc = "done",
                                          ![p].ret = IntegrityError]
           ELSE /\ table' = BulkWrite(table, existing, items)
                /\ cache' = CacheDeleteMany(cache, ItemKeys(items))
                /\ procs' = [procs EXCEPT ![p].pc = "done",
                      ![p].ret = [NoRet EXCEPT !.nodes = 1,
                          !.entries = [i \in 1..Len(items) |->
                              Entry(items[i].key, table'[items[i].key])]]]
    /\ UNCHANGED <<nPeers, health, pc, call, txn, repl, ret, pre, puts, scan,
                   wire, cluster>>

\* The rows present when the concurrent requests arrive.
InitConc ==
    /\ Init
    /\ nPeers = 0

\* How the table comes to hold rows before the concurrent requests arrive:
\* sequential puts without replication.
ConcSetup(k, v) ==
    /\ \A p \in Procs : procs[p].pc = "idle"
    /\ table' = UpdateOrCreate(table, k, v)
    /\ pre' = [pre EXCEPT !.table = table']
    /\ UNCHANGED <<nPeers, cache, health, pc, call, txn, repl, ret, puts,
                   scan, wire, cluster, procs>>

NextConc ==
    \/ \E k \in Keys, v \in Values :
          VersionsBelow({k}, MaxVersion) /\ ConcSetup(k, v)
    \/ \E p \in Procs, k \in Keys, v \in Values : ConcPutUpdate(p, k, v)
    \/ \E p \in Procs : ConcPutCreate(p)
    \/ \E p \in Procs, items \in ValidBatches(Keys) : ConcBatchFetch(p, items)
    \/ \E p \in Procs : ConcBatchApply(p)

SpecConc == InitConc /\ [][NextConc]_vars

\* ------------------------------------------------- reads against a writer
\* Process q is inside put_value's transaction with its update of key k not
\* yet committed, and so holds the lock of the row.
HoldsRow(q, k) ==
    /\ procs[q].op = "put"
    /\ procs[q].key = k
    /\ procs[q].pc \in {"updated", "invalidated"}

\* put_value(k, v) of process p enters its transaction and runs the update,
\* or the create: the new row is p's own until the commit.  With no peer
\* configured replicate_put returns at once.
CoPutUpdate(p, k, v) ==
    /\ procs[p].pc = "idle"
    /\ \A q \in Procs \ {p} : ~HoldsRow(q, k)
    /\ procs' = [procs EXCEPT ![p] =
          [NoProc EXCEPT !.op = "put", !.pc = "updated", !.key = k,
                         !.value = v,
                         !.existing = <<UpdateOrCreate(table, k, v)[k]>>]]
    /\ UNCHANGED <<nPeers, table, cache, health, pc, call, txn, repl, ret,
                   pre, puts, scan, wire, cluster>>

\* The cache.delete of put_value, inside the transaction.
CoPutInvalidate(p) ==
    /\ procs[p].op = "put"
    /\ procs[p].pc = "updated"
    /\ cache' = CacheDelete(cache, procs[p].key)
    /\ procs' = [procs EXCEPT ![p].pc = "invalidated"]
    /\ UNCHANGED <<nPeers, table, health, pc, call, txn, repl, ret, pre,
                   puts, scan, wire, cluster>>

\* put_value leaves transaction.atomic(): the row is committed.
CoPutCommit(p) ==
    /\ procs[p].op = "put"
    /\ procs[p].pc = "invalidated"
    /\ table' = (procs[p].key :> procs[p].existing[1]) @@ table
    /\ procs' = [procs EXCEPT ![p].pc = "done",
                              ![p].ret =
                                  [NoRet EXCEPT !.nodes = 1,
                                      !.entries = <<Entry(procs[p].key,
                                                    procs[p].existing[1])>>]]
    /\ UNCHANGED <<nPeers, cache, health, pc, call, txn, repl, ret, pre,
                   puts, scan, wire, cluster>>

\* The cache.get of read_value(k) of process p: a hit is returned.
CoReadLookup(p, k) ==
    /\ procs[p].pc = "idle"
    /\ procs' = [procs EXCEPT ![p] =
          IF k \in DOMAIN cache
          THEN [NoProc EXCEPT !.op = "read", !.pc = "done", !.key = k,
                              !.ret = [NoRet EXCEPT
                                          !.entries = <<Entry(k, cache[k])>>]]
          ELSE [NoProc EXCEPT !.op = "read", !.pc = "missed", !.key = k]]
    /\ UNCHANGED <<nPeers, table, cache, health, pc, call, txn, repl, ret,
                   pre, puts, scan, wire, cluster>>

\* The objects.get of read_value after the miss: the committed row, or
\* DoesNotExist.
CoReadFetch(p) ==
    /\ procs[p].op = "read"
    /\ procs[p].pc = "missed"
    /\ procs' = [procs EXCEPT ![p] =
          IF procs[p].key \in DOMAIN table
          THEN [@ EXCEPT !.pc = "fetched",
                         !.existing = <<table[procs[p].key]>>]
          ELSE [@ EXCEPT !.pc = "done",
                         !.ret = [NoRet EXCEPT !.ok = FALSE,
                                               !.error = "not_found"]]]
    /\ UNCHANGED <<nPeers, table, cache, health, pc, call, txn, repl, ret,
                   pre, puts, scan, wire, cluster>>

\* The cache.set of read_value with the row it fetched.
CoReadPopulate(p) ==
    /\ procs[p].op = "read"
    /\ procs[p].pc = "fetched"
    /\ cache' = (procs[p].key :> procs[p].existing[1]) @@ cache
    /\ procs' = [procs EXCEPT ![p].pc = "done",
                              ![p].ret =
                                  [NoRet EXCEPT
                                      !.entries = <<Entry(procs[p].key,
                                                    procs[p].existing[1])>>]]
    /\ UNCHANGED <<nPeers, table, health, pc, call, txn, repl, ret, pre,
                   puts, scan, wire, cluster>>

\* A read_value and a put_value running at the same time, step by step.
NextCache ==
    \/ \E k \in Keys, v \in Values :
          VersionsBelow({k}, MaxVersion) /\ ConcSetup(k, v)
    \/ \E p \in Procs, k \in Keys, v \in Values : CoPutUpdate(p, k, v)
    \/ \E p \in Procs : CoPutInvalidate(p)
    \/ \E p \in Procs : CoPutCommit(p)
    \/ \E p \in Procs, k \in Keys : CoReadLookup(p, k)
    \/ \E p \in Procs : CoReadFetch(p)
    \/ \E p \in Procs : CoReadPopulate(p)

SpecCache == InitConc /\ [][NextCache]_vars

\* --------------------------------------------------------------- health monitor
\* Faulty variant of check_node_health: a cached entry is used only when it
\* says healthy.
check_node_health_healthy_only(h, node, use_cache, resp) ==
    IF use_cache /\ node \in DOMAIN h /\ h[node]
    THEN [healthy |-> h[node], cache |-> h, probed |-> FALSE]
    ELSE LET is_healthy == resp # NetErr /\ resp = 200
         IN  [healthy |-> is_healthy, cache |-> (node :> is_healthy) @@ h,
              probed |-> TRUE]

\* check_node_health(node, use_cache) on the health cache h when the probe,
\* if one is made, is answered by resp: the result, the cache after it, and
\* whether the probe was made.
check_node_health(h, node, use_cache, resp) ==
    IF use_cache /\ node \in DOMAIN h
    THEN [healthy |-> h[node], cache |-> h, probed |-> FALSE]
    ELSE LET is_healthy == resp # NetErr /\ resp = 200
         IN  [healthy |-> is_healthy, cache |-> (node :> is_healthy) @@ h,
              probed |-> TRUE]

\* Faulty variant of StatusUseCache: the cached health is used.
StatusUseCacheDefault == TRUE

\* The use_cache argument of get_cluster_status's checks.
StatusUseCache == FALSE

\* The loop of get_cluster_status from peer node on: the health cache and
\* node_statuses after it.
RECURSIVE StatusChecks(_, _, _, _)
StatusChecks(h, node, probes, node_statuses) ==
    IF node > nPeers THEN [cache |-> h, node_statuses |-> node_statuses]
    ELSE LET c == check_node_health(h, node, StatusUseCache, probes[node])
         IN  StatusChecks(c.cache, node + 1, probes,
                          Append(node_statuses, c.healthy))

\* get_cluster_status when the probe of peer n is answered by probes[n].
GetClusterStatus(probes) ==
    /\ pc = "idle"
    /\ LET checks == StatusChecks(health, 1, probes, <<>>)
           healthy_count ==
               Cardinality({n \in 1..nPeers : checks.node_statuses[n]}) + 1
           total_count == nPeers + 1
       IN  /\ health' = checks.cache
           /\ cluster' =
                 [reported |-> TRUE,
                  checked |-> FALSE,
                  replication_enabled |-> is_replication_enabled,
                  total_nodes |-> total_count,
                  healthy_nodes |-> healthy_count,
                  unhealthy_nodes |-> total_count - healthy_count,
                  required_for_quorum |-> get_required_replicas,
                  has_quorum |-> healthy_count >= get_required_replicas,
                  can_accept_writes |-> healthy_count >= get_required_replicas,
                  retry_attempts |-> RETRY_ATTEMPTS,
                  nodes |-> checks.node_statuses,
                  probes |-> probes,
                  cached |-> health]
    /\ UNCHANGED <<nPeers, table, cache, pc, call, txn, repl, ret, pre, puts,
                   scan, wire, procs>>

\* The health entry of peer n reaches its HEALTH_CACHE_TIMEOUT.
HealthExpire(n) ==
    /\ pc = "idle"
    /\ n \in DOMAIN health
    /\ health' = Without(health, n)
    /\ UNCHANGED <<nPeers, table, cache, pc, call, txn, repl, ret, pre, puts,
                   scan, wire, cluster, procs>>

\* What one requests.get of a peer's /health/ can produce.
ProbeResponses == {NetErr, 200, 500}

\* One call of check_node_health(node, use_cache) outside a fan-out, the
\* probe, if one is made, answered by resp.
CheckNodeHealth(node, use_cache, resp) ==
    /\ pc # "replicating"
    /\ LET c == check_node_health(health, node, use_cache, resp)
       IN  /\ health' = c.cache
           /\ cluster' = [reported |-> FALSE,
                          checked |-> TRUE,
                          node |-> node,
                          use_cache |-> use_cache,
                          healthy |-> c.healthy,
                          probes |-> IF c.probed THEN <<resp>> ELSE <<>>,
                          cached |-> health]
    /\ UNCHANGED <<nPeers, table, cache, pc, call, txn, repl, ret, pre, puts,
                   scan, wire, procs>>

\* The result of the health monitor has been handed to its caller.
MonitorReturn ==
    /\ cluster # NoStatus
    /\ cluster' = NoStatus
    /\ UNCHANGED <<nPeers, table, cache, health, pc, call, txn, repl, ret,
                   pre, puts, scan, wire, procs>>

\* ------------------------------------------------------------------ the views
\* The keys of the point requests in the histories of requests.
ViewKeys == {<<1>>}

\* Faulty variant of ReplicateFlag: the X-Replication header is ignored.
ReplicateAlways(marker) == TRUE

\* The replicate argument the views pass: not is_replication.
ReplicateFlag(marker) == ~marker

\* The X-Replication header of the outbound requests.put, requests.delete
\* and requests.post: "true".
OutboundMarker == TRUE

\* The handling of a request starts: its X-Replication header is marker.
Inbound(marker) ==
    wire' = [NoWire EXCEPT !.marker = marker, !.health = health]

\* One outbound call is made and answered.
Outbound(resp) ==
    wire' = [wire EXCEPT !.sent = Append(@, [node |-> repl.node,
                                             op |-> call.op,
                                             marker |-> OutboundMarker]),
                         !.resp = resp]

\* KeyValueView.put up to the call of replicate_put.
PutRequest(k, v, marker) ==
    PutValue(k, v, ReplicateFlag(marker)) /\ Inbound(marker)

\* KeyValueView.delete up to the call of replicate_delete.
DeleteRequest(k, marker) ==
    DeleteValue(k, ReplicateFlag(marker)) /\ Inbound(marker)

\* Faulty variant of validate_items: duplicate keys are let through.
validate_items_sizes_only(items) ==
    IF items = <<>> THEN "empty"
    ELSE IF Len(items) > MAX_BATCH_SIZE THEN "size"
    ELSE "none"

\* BatchPutSerializer.validate_items: which ValidationError it raises, or
\* "none".
validate_items(items) ==
    IF items = <<>> THEN "empty"
    ELSE IF Len(items) > MAX_BATCH_SIZE THEN "size"
    ELSE IF Cardinality(ItemKeys(items)) # Len(items) THEN "duplicate"
    ELSE "none"

\* The request ends with the ValidationError error before any mutation.
BatchRejected(items, marker, error) ==
    /\ call' = [op |-> "batch", key |-> <<>>, value |-> 0, items |-> items,
                replicate |-> ReplicateFlag(marker), results |-> <<>>]
    /\ ret' = [ok |-> FALSE, flag |-> FALSE, nodes |-> 0, entries |-> <<>>,
               error |-> error]
    /\ pre' = Snapshot
    /\ pc' = "returned"
    /\ Inbound(marker)
    /\ UNCHANGED <<nPeers, table, cache, health, txn, repl, puts, scan,
                   cluster, procs>>

\* BatchPutView.post up to the call of replicate_batch_put, or to its
\* response when the serializer or batch_put itself rejects the items.
BatchPost(items, marker) ==
    /\ pc = "idle"
    /\ IF validate_items(items) # "none"
       THEN BatchRejected(items, marker, validate_items(items))
       ELSE IF Len(items) > MAX_BATCH_SIZE
       THEN BatchRejected(items, marker, "size")
       ELSE BatchPut(items, ReplicateFlag(marker)) /\ Inbound(marker)

\* The bodies of the batch requests: lists of up to one item more than the
\* maximum, valid or not.
BatchBodies(K) ==
    UNION {[1..n -> [key : K, value : Values]] : n \in 0..(MAX_BATCH_SIZE + 1)}

\* Histories of requests as the views handle them, with the outbound calls
\* recorded.
NextView ==
    \/ \E k \in ViewKeys, v \in Values, m \in BOOLEAN :
          VersionsBelow({k}, MaxVersion) /\ PutRequest(k, v, m)
    \/ PutReturn /\ UNCHANGED puts
    \/ \E k \in ViewKeys : ReadValue(k)
    \/ \E k \in ViewKeys, m \in BOOLEAN : DeleteRequest(k, m)
    \/ DeleteReturn
    \/ \E items \in BatchBodies(ViewKeys), m \in BOOLEAN :
          VersionsBelow(ItemKeys(items), MaxVersion) /\ BatchPost(items, m)
    \/ BatchReturn
    \/ \E resp \in Responses : ReplicateAttempt(resp) /\ Outbound(resp)
    \/ \E resp \in Responses : ReplicateBatchAttempt(resp) /\ Outbound(resp)
    \/ Respond

SpecView == Init /\ [][NextView]_vars

\* Histories of status requests, single health checks and replicated puts.
NextHealth ==
    \/ \E probes \in [1..nPeers -> ProbeResponses] :
          cluster = NoStatus /\ GetClusterStatus(probes)
    \/ \E n \in 1..nPeers : cluster = NoStatus /\ HealthExpire(n)
    \/ \E n \in 1..nPeers, use_cache \in BOOLEAN, resp \in ProbeResponses :
          cluster = NoStatus /\ CheckNodeHealth(n, use_cache, resp)
    \/ MonitorReturn
    \/ \E k \in ViewKeys, v \in Values :
          /\ cluster = NoStatus
          /\ VersionsBelow({k}, MaxVersion)
          /\ PutRequest(k, v, FALSE)
    \/ \E resp \in Responses : ReplicateAttempt(resp) /\ UNCHANGED wire
    \/ PutReturn /\ UNCHANGED puts
    \/ Respond

SpecHealth == Init /\ [][NextHealth]_vars

\* ---------------------------------------------------------------- termination
\* One outbound call of either fan-out, made and answered or timed out.
Attempt ==
    \E resp \in Responses :
        \/ ReplicateAttempt(resp) /\ Outbound(resp)
        \/ ReplicateBatchAttempt(resp) /\ Outbound(resp)

\* The handler goes on from the return of its fan-out.
HandlerReturn ==
    \/ PutReturn /\ UNCHANGED puts
    \/ DeleteReturn
    \/ BatchReturn

\* Histories of unmarked write requests.
NextLive ==
    \/ \E k \in ViewKeys, v \in Values :
          VersionsBelow({k}, MaxVersion) /\ PutRequest(k, v, FALSE)
    \/ \E k \in ViewKeys : DeleteRequest(k, FALSE)
    \/ \E items \in ValidBatches(ViewKeys) :
          VersionsBelow(ItemKeys(items), MaxVersion) /\ BatchPost(items, FALSE)
    \/ Attempt
    \/ HandlerReturn
    \/ Respond

\* Every outbound call carries a timeout, so it is answered or fails, and
\* the handler's thread runs on: an enabled call or return is taken.
SpecLive ==
    /\ Init
    /\ [][NextLive]_vars
    /\ WF_vars(Attempt)
    /\ WF_vars(HandlerReturn)

\* ------------------------------------------------------------------ the peers
\* A peer that runs this program applies a replicated call exactly when it
\* answers it as the view does after the service has returned: 201 or 200
\* to a put, 204 to a delete, 200 to a batch.  A call that ended in a
\* network error is taken not to have reached the peer.
PeerApplies(op, resp) ==
    /\ resp # NetErr
    /\ \/ op = "put" /\ resp \in {200, 201}
       \/ op = "delete" /\ resp = 204
       \/ op = "batch" /\ resp = 200

\* What a peer that runs this program answers to a replicated put: the
\* view's 201 or 200, the 500 of a failure, the 404 of its URL resolver, or
\* nothing.
PutAnswers == {NetErr, 200, 201, 404, 500}

\* One outbound call is made and answered, the peer having applied it or
\* not.
OutboundApplied(resp) ==
    wire' = [wire EXCEPT !.sent = Append(@, [node |-> repl.node,
                                             op |-> call.op,
                                             marker |-> OutboundMarker,
                                             applied |->
                                                 PeerApplies(call.op, resp)]),
                         !.resp = resp]

InitCluster ==
    /\ nPeers \in 1..ClusterPeers
    /\ Fresh

\* Histories of unmarked puts on a node whose peers run this program.
NextCluster ==
    \/ \E k \in ViewKeys, v \in Values :
          VersionsBelow({k}, MaxVersion) /\ PutRequest(k, v, FALSE)
    \/ \E resp \in PutAnswers : ReplicateAttempt(resp) /\ OutboundApplied(resp)
    \/ PutReturn /\ UNCHANGED puts
    \/ Respond

SpecCluster == InitCluster /\ [][NextCluster]_vars

\* ------------------------------------------------------------------- claims
\* The row of key k in the table tbl: <<row>>, or <<>> when there is none.
RowOf(tbl, k) == IF k \in DOMAIN tbl THEN <<tbl[k]>> ELSE <<>>

\* The call op has returned.
Returned(op) == pc = "returned" /\ call.op = op

\* A replicated call that reached its fan-out has returned.
ReplicatedWriteReturned ==
    /\ pc = "returned"
    /\ call.op \in {"put", "delete", "batch"}
    /\ call.replicate
    /\ call.op = "delete" => call.key \in DOMAIN pre.table

\* C1: when put_value(k, v, replicate=true) ends without quorum, the row of
\* k in the local table is what it was before the call: absent if it was
\* absent, the same value and version if it existed.
C1_PutRollback ==
    (Returned("put") /\ call.replicate /\ ~ret.ok)
        => RowOf(table, call.key) = RowOf(pre.table, call.key)

\* A put of an existing key has failed for lack of quorum.
C1_Witness ==
    /\ Returned("put") /\ call.replicate /\ ~ret.ok
    /\ call.key \in DOMAIN pre.table

\* C2: when delete_value(k, replicate=true) removed a row and replication
\* then failed to reach quorum, the row exists again with the value and the
\* version it had before.
C2_DeleteRollback ==
    (Returned("delete") /\ call.replicate /\ ~ret.ok)
        => RowOf(table, call.key) = RowOf(pre.table, call.key)

\* C3: in a history of put_value calls, successful and failed ones mixed,
\* the version of a key is the number of its successful puts so far (no row
\* before the first); a failed put leaves it alone.
C3_VersionCounts ==
    pc # "replicating" =>
        \A k \in Keys :
            IF puts[k] = 0 THEN k \notin DOMAIN table
            ELSE k \in DOMAIN table /\ table[k].version = puts[k]

\* A put has failed after the key was put successfully twice.
C3_Witness ==
    /\ Returned("put") /\ ~ret.ok
    /\ puts[call.key] = 2

\* C4: a replicated put, delete or batch with P peers reports success
\* exactly when 1 + the number of peers that succeeded is at least
\* floor((P+1)/2)+1; with no peer it always succeeds.
C4_QuorumDecision ==
    ReplicatedWriteReturned =>
        /\ ret.ok <=> (ret.nodes >= ((nPeers + 1) \div 2) + 1)
        /\ nPeers = 0 => ret.ok

\* A write with one peer has failed because the peer did.
C4_Witness ==
    /\ ReplicatedWriteReturned
    /\ nPeers = 1 /\ ret.nodes = 1 /\ ~ret.ok

\* C5: after a successful put_value(k, v), read_value(k) returns v with the
\* incremented version, also when a read had cached the previous entry.
C5_ReadAfterPut ==
    (Returned("put") /\ ret.ok) =>
        read_value(call.key) =
            <<[key |-> call.key, value |-> call.value,
               version |-> IF call.key \in DOMAIN pre.table
                           THEN pre.table[call.key].version + 1 ELSE 1]>>

\* A successful put of a key whose previous entry, with another value, was
\* in the cache when the put started.
C5_Witness ==
    /\ Returned("put") /\ ret.ok
    /\ call.key \in DOMAIN pre.cache
    /\ call.key \in DOMAIN pre.table
    /\ pre.cache[call.key] = pre.table[call.key]
    /\ pre.cache[call.key].value # call.value

\* C6: when batch_put ends in failure, no item of the batch remains applied
\* in the local table.
C6_BatchAllOrNothing ==
    (Returned("batch") /\ ~ret.ok) =>
        \A k \in ItemKeys(call.items) :
            RowOf(table, k) = RowOf(pre.table, k)

\* C7: a successful batch_put returns one entry per item, the i-th entry
\* having the key of the i-th item.
C7_BatchResultOrder ==
    (Returned("batch") /\ ret.ok) =>
        /\ Len(ret.entries) = Len(call.items)
        /\ \A i \in 1..Len(call.items) :
               ret.entries[i].key = call.items[i].key

\* The keys of [start, end] in the table, for the scan in progress.
KeysInRange ==
    {k \in DOMAIN table : StrLeq(scan.start, k) /\ StrLeq(k, scan.end)}

Ascending(keys) ==
    \A i \in 1..(Len(keys) - 1) : StrLess(keys[i], keys[i + 1])

\* C8: paging with cursor = the last key of the previous page until
\* has_more is false yields every key of the range exactly once, ascending.
C8_CursorPagination ==
    (scan.mode = "last" /\ ~scan.page.has_more) =>
        /\ Range(scan.seen) = KeysInRange
        /\ Ascending(scan.seen)

\* A scan of at least three pages has ended.
C8_Witness ==
    /\ scan.mode = "last" /\ ~scan.page.has_more
    /\ scan.pages >= 3
    /\ Len(scan.seen) >= 5

\* C9: when has_more is true, next_cursor is the key of the last entry of
\* the page, so that paging by next_cursor visits every key of the range
\* exactly once.
C9_NextCursorIsLastKey ==
    /\ (scan.mode # "none" /\ scan.page.has_more /\ scan.page.entries # <<>>)
           => scan.page.next_cursor
                  = scan.page.entries[Len(scan.page.entries)].key
    /\ (scan.mode = "next" /\ ~scan.page.has_more)
           => Range(scan.seen) = KeysInRange /\ Ascending(scan.seen)

C11_BatchValidation ==
    [][(/\ pc = "idle" /\ pc' # "idle"
        /\ call'.op = "batch"
        /\ \/ call'.items = <<>>
           \/ Len(call'.items) > MAX_BATCH_SIZE
           \/ Cardinality(ItemKeys(call'.items)) # Len(call'.items))
       => /\ pc' = "returned"
          /\ ~ret'.ok
          /\ ret'.error \in {"empty", "size", "duplicate"}
          /\ Len(call'.items) > MAX_BATCH_SIZE => ret'.error = "size"
          /\ table' = table /\ cache' = cache /\ health' = health
          /\ wire'.sent = <<>>]_vars

\* A list of unmarked items with a repeated key, within the size limit, has
\* been rejected on a node with peers, a row, a cached entry and a peer
\* marked unhealthy.
C11_Witness ==
    /\ Returned("batch") /\ ret.error = "duplicate"
    /\ ~wire.marker /\ nPeers >= 1
    /\ table # <<>> /\ cache # <<>> /\ health # <<>>

\* C12: a peer that answers a replicated delete with 404 is recorded as
\* successful, not as failed, its health entry is not touched, and the
\* quorum decision of a replicated delete counts the local node plus the
\* peers so recorded.
C12_IdempotentDelete ==
    [][/\ (/\ pc = "replicating" /\ call.op = "delete"
           /\ Len(wire'.sent) = Len(wire.sent) + 1
           /\ wire'.resp = 404)
          => /\ repl'.successful = Append(repl.successful, repl.node)
             /\ repl'.failed = repl.failed
             /\ health' = health
       /\ (/\ pc = "replicating" /\ call.op = "delete"
           /\ call.replicate /\ nPeers > 0
           /\ pc' = "returned")
          => /\ ret'.nodes = 1 + Len(repl.successful)
             /\ ret'.ok <=> (1 + Len(repl.successful)
                                >= ((nPeers + 1) \div 2) + 1)]_vars

\* A delete with one peer has succeeded on the peer's 404.
C12_Witness ==
    /\ Returned("delete") /\ ret.ok /\ ret.flag
    /\ nPeers = 1
    /\ Len(wire.sent) = 1 /\ wire.resp = 404
    /\ ret.nodes = 2

\* The number of outbound calls to peer n while the current request is
\* handled.
CallsTo(n) == Cardinality({i \in 1..Len(wire.sent) : wire.sent[i].node = n})

\* C13: every outbound call carries the replication marker; a request that
\* carries the marker causes no outbound call; a request causes at most 3
\* calls to each peer.
C13_NoReplicationCycles ==
    /\ \A i \in 1..Len(wire.sent) : wire.sent[i].marker
    /\ wire.marker => wire.sent = <<>>
    /\ \A n \in 1..nPeers : CallsTo(n) <= 3
    /\ Len(wire.sent) <= 3 * nPeers

\* A marked put has been handled to its end on a node with peers.
C13_Witness ==
    /\ Returned("put") /\ wire.marker
    /\ nPeers >= 1

\* C16: delete_value of a key without a row returns false at once: no
\* outbound call, the table and the health cache as they were.
C16_DeleteAbsent ==
    [][(/\ pc = "idle" /\ pc' # "idle"
        /\ call'.op = "delete"
        /\ call'.key \notin DOMAIN table)
       => /\ pc' = "returned"
          /\ ret'.ok /\ ~ret'.flag
          /\ wire'.sent = <<>>
          /\ repl' = repl
          /\ table' = table /\ health' = health]_vars

\* An unmarked delete of an absent key has returned on a node with peers,
\* one of them marked unhealthy.
C16_Witness ==
    /\ Returned("delete") /\ call.replicate
    /\ call.key \notin DOMAIN pre.table
    /\ nPeers >= 1 /\ health # <<>>

\* C14: after a delete of an existing key that reports success, read_value
\* of the key finds nothing, also when an earlier read had cached the entry.
C14_DeleteThenRead ==
    (Returned("delete") /\ ret.ok /\ ret.flag) => read_value(call.key) = <<>>

\* A replicated delete has succeeded for a key whose entry was in the cache
\* when the delete started.
C14_Witness ==
    /\ Returned("delete") /\ ret.ok /\ ret.flag
    /\ call.replicate /\ nPeers >= 1
    /\ call.key \in DOMAIN pre.cache

\* C15: after a successful batch_put of unique keys every item's key has a
\* row with the item's value, with version 1 if the key had no row and the
\* previous version plus 1 if it had; the rows of all other keys are
\* unchanged.
C15_BatchUpsertEffect ==
    (Returned("batch") /\ ret.ok) =>
        /\ \A i \in 1..Len(call.items) :
               LET k == call.items[i].key
               IN  /\ k \in DOMAIN table
                   /\ table[k].value = call.items[i].value
                   /\ table[k].version =
                          (IF k \in DOMAIN pre.table
                           THEN pre.table[k].version + 1 ELSE 1)
        /\ \A k \in BatchKeys \ ItemKeys(call.items) :
               RowOf(table, k) = RowOf(pre.table, k)

\* A successful batch with an existing key, a new key and a key left out
\* whose row exists.
C15_Witness ==
    /\ Returned("batch") /\ ret.ok
    /\ \E k \in ItemKeys(call.items) : k \in DOMAIN pre.table
    /\ \E k \in ItemKeys(call.items) : k \notin DOMAIN pre.table
    /\ \E k \in BatchKeys \ ItemKeys(call.items) : k \in DOMAIN pre.table

\* The keys of the range after the cursor of the last request.
Remaining ==
    {k \in KeysInRange : scan.cursor # <<>> => StrLess(scan.cursor, k)}

C18_ClusterStatus ==
    [][cluster'.reported /\ cluster' # cluster =>
        LET up == {n \in 1..nPeers : cluster'.probes[n] = 200}
        IN  /\ cluster'.cached = health
            /\ \A n \in 1..nPeers :
                   /\ n \in DOMAIN health'
                   /\ health'[n] = (n \in up)
                   /\ cluster'.nodes[n] = (n \in up)
            /\ cluster'.healthy_nodes = 1 + Cardinality(up)
            /\ cluster'.required_for_quorum = ((nPeers + 1) \div 2) + 1
            /\ cluster'.has_quorum =
                   (cluster'.healthy_nodes >= cluster'.required_for_quorum)
            /\ cluster'.can_accept_writes = cluster'.has_quorum]_vars

\* A status report that found a peer healthy whose cached health was false,
\* and a peer unhealthy whose cached health was true.
C18_Witness ==
    /\ cluster.reported
    /\ \E n \in 1..nPeers :
           /\ n \in DOMAIN cluster.cached /\ ~cluster.cached[n]
           /\ cluster.probes[n] = 200
           /\ n \in DOMAIN health /\ health[n]
    /\ \E n \in 1..nPeers :
           /\ n \in DOMAIN cluster.cached /\ cluster.cached[n]
           /\ cluster.probes[n] = NetErr
           /\ n \in DOMAIN health /\ ~health[n]

\* C17: a put, delete or batch is reported to the caller as a replication
\* failure only when replication did not reach quorum; a failure of another
\* kind, such as the uniqueness violation of two racing first puts, is
\* reported as something else.
C17_QuorumFailureDistinct ==
    \A p \in Procs :
        procs[p].pc = "done" =>
            LET response == ViewResponse(procs[p].op, procs[p].ret)
            IN  /\ response.detail = "Replication failed"
                       => procs[p].ret.error = "quorum"
                /\ procs[p].ret.error = "integrity"
                       => response.detail # "Replication failed"

\* The keys process p writes.
WrittenKeys(p) ==
    IF procs[p].op = "put" THEN {procs[p].key} ELSE ItemKeys(procs[p].items)

\* C20: when the concurrent put_value and batch_put calls have ended, the
\* version of every key that had a row before them is its version then plus
\* the number of committed writes to it.
C20_VersionUnderConcurrency ==
    (\A p \in Procs : procs[p].pc = "done") =>
        \A k \in DOMAIN pre.table :
            table[k].version =
                pre.table[k].version
                + Cardinality({p \in Procs : /\ procs[p].ret.ok
                                             /\ k \in WrittenKeys(p)})

\* A step makes one outbound call.
CallStep == Len(wire'.sent) = Len(wire.sent) + 1

\* The peer the outbound call of a step goes to.
CalledNode == wire'.sent[Len(wire'.sent)].node

\* The outbound call of a step is answered by a response the fan-out counts
\* as a success.
CallSucceeds ==
    /\ wire'.resp # NetErr
    /\ IF call.op = "batch" THEN BatchSuccess(wire'.resp)
                            ELSE PointSuccess(wire'.resp)

\* The peers the fan-out has settled, as successful or as failed.
Settled(r) == Range(r.successful) \cup Range(r.failed)

\* The fan-out of a replicated operation has returned to its handler.
FanOutReturned ==
    /\ pc = "replicating"
    /\ ~ReplicationSkipped
    /\ ReplicationReturned

\* C21: a call goes only to a peer that is not yet settled and has had
\* fewer than 3 calls; a call that succeeds settles the peer as successful,
\* so that it gets no further call; a failed call, by network error or by
\* status, leaves the peer to be called again when it is the first or the
\* second, and settles the peer as failed when it is the third; when the
\* fan-out returns, every peer has had between 1 and 3 calls, and exactly 3
\* when it is recorded as failed.
C21_RetryBound ==
    [][/\ CallStep =>
            LET n == CalledNode
            IN  /\ n \notin Settled(repl)
                /\ CallsTo(n) < 3
                /\ CallSucceeds =>
                       /\ n \in Range(repl'.successful)
                       /\ n \notin Range(repl'.failed)
                /\ (~CallSucceeds /\ CallsTo(n) < 2) => n \notin Settled(repl')
                /\ (~CallSucceeds /\ CallsTo(n) = 2) =>
                       /\ n \in Range(repl'.failed)
                       /\ n \notin Range(repl'.successful)
       /\ (FanOutReturned /\ pc' = "returned") =>
            \A n \in 1..nPeers :
                /\ CallsTo(n) >= 1 /\ CallsTo(n) <= 3
                /\ n \in Settled(repl)
                /\ n \in Range(repl.failed) => CallsTo(n) = 3]_vars

\* The fan-out to two peers has returned: the first failed three times, the
\* second succeeded at its second call, answered 200.
C21_Witness ==
    /\ FanOutReturned
    /\ nPeers = 2
    /\ repl.failed = <<1>> /\ repl.successful = <<2>>
    /\ CallsTo(1) = 3 /\ CallsTo(2) = 2
    /\ wire.resp = 200

\* The peers that had 3 calls while the current request was handled, none of
\* them counted as a success.
Exhausted ==
    {n \in 1..nPeers : CallsTo(n) = 3 /\ n \notin Range(repl.successful)}

C23_SequentialFanOut ==
    [][/\ CallStep =>
            /\ CalledNode \in 1..nPeers
            /\ \A i \in 1..Len(wire.sent) : wire.sent[i].node <= CalledNode
            /\ pc = "replicating" /\ pc' = "replicating"
       /\ (FanOutReturned /\ pc' = "returned") =>
            \A n \in 1..nPeers : CallsTo(n) >= 1]_vars

\* A batch to two peers has returned with quorum: the first peer succeeded
\* at once, which reached the quorum, and the second was still called three
\* times.
C23_Witness ==
    /\ Returned("batch") /\ ret.ok
    /\ nPeers = 2
    /\ CallsTo(1) = 1 /\ CallsTo(2) = 3

\* C24: the peer of a point call is counted as successful exactly when it
\* answers with a success-class status or, to a delete only, with 404; a
\* peer that answers 404 to a put is called again, and recorded as failed
\* when that was its third call.
C24_PeerSuccessClassification ==
    [][(CallStep /\ call.op \in {"put", "delete"}) =>
          LET n == CalledNode
              success == \/ wire'.resp \in {200, 201, 204}
                         \/ call.op = "delete" /\ wire'.resp = 404
          IN  /\ n \in Range(repl'.successful) <=> success
              /\ (~success /\ CallsTo(n) = 2) => n \in Range(repl'.failed)]_vars

\* C25: when put_value, delete_value or batch_put returns, with or without
\* replication and with or without quorum, the cache holds no entry for a
\* key whose row the call changed or removed, and no entry it did not hold
\* before the call; between operations every cached entry is the row of its
\* key in the table.
C25_CacheInvalidation ==
    /\ (pc = "returned" /\ call.op \in {"put", "delete", "batch"}) =>
          /\ \A k \in BatchKeys :
                 RowOf(table, k) # RowOf(pre.table, k) => k \notin DOMAIN cache
          /\ \A k \in DOMAIN cache :
                 k \in DOMAIN pre.cache /\ cache[k] = pre.cache[k]
    /\ pc = "idle" =>
          \A k \in DOMAIN cache : k \in DOMAIN table /\ cache[k] = table[k]

\* C30: check_node_health(node, use_cache) with use_cache true and an entry
\* for the node in the health cache returns the entry, healthy or unhealthy,
\* makes no probe and leaves the cache as it is; with no entry, or with
\* use_cache false, it probes the node, returns healthy exactly when the
\* probe is answered 200, and caches what it returns, unhealthy on any other
\* status and on a network error.
C30_HealthCheckCaching ==
    [][(cluster'.checked /\ ~cluster.checked) =>
          LET n == cluster'.node
              probed == cluster'.probes # <<>>
          IN  IF cluster'.use_cache /\ n \in DOMAIN health
              THEN /\ ~probed
                   /\ cluster'.healthy = health[n]
                   /\ health' = health
              ELSE /\ probed
                   /\ cluster'.healthy = (cluster'.probes[1] = 200)
                   /\ health' = (n :> cluster'.healthy) @@ health]_vars

\* A put found the health cache empty and failed for lack of quorum, its
\* only peer marked unhealthy; the cached check of the peer that followed
\* reported it unhealthy without a probe.
C30_Witness ==
    /\ Returned("put") /\ ~ret.ok
    /\ nPeers = 1
    /\ wire.health = <<>>
    /\ cluster.checked /\ cluster.node = 1 /\ cluster.use_cache
    /\ cluster.probes = <<>>
    /\ ~cluster.healthy

\* C29: a replicated put, delete or batch makes at most 3 calls to a peer
\* and at most 3 x P calls in all, returns from its fan-out with every peer
\* settled as successful or failed, and does return: the handler ends with
\* the result of the operation or with the quorum failure.
C29_CoordinatorTermination ==
    /\ [](/\ Len(wire.sent) <= RETRY_ATTEMPTS * nPeers
          /\ \A n \in 1..nPeers : CallsTo(n) <= RETRY_ATTEMPTS)
    /\ [][(FanOutReturned /\ pc' = "returned") =>
             \A n \in 1..nPeers : n \in Settled(repl)]_vars
    /\ (pc = "replicating" /\ ~ReplicationSkipped)
          ~> (pc = "returned" /\ (ret.ok \/ ret.error = "quorum"))

\* A delete to two peers has returned the quorum failure after 3 calls to
\* each.
C29_Witness ==
    /\ Returned("delete") /\ ret.error = "quorum"
    /\ nPeers = 2
    /\ Len(wire.sent) = 6

\* C26: when a read_value and a put_value of the same key that ran at the
\* same time have both ended, the put with success, the cache holds no entry
\* for the key or holds the row the put committed.
C26_CacheCoherence ==
    \A p \in Procs, q \in Procs :
        (/\ procs[p].pc = "done" /\ procs[p].op = "put" /\ procs[p].ret.ok
         /\ procs[q].pc = "done" /\ procs[q].op = "read"
         /\ procs[q].key = procs[p].key)
        => \/ procs[p].key \notin DOMAIN cache
           \/ cache[procs[p].key] = table[procs[p].key]

\* The peers that have applied an outbound call of the current request.
PeersHolding ==
    {n \in 1..nPeers :
        \E i \in 1..Len(wire.sent) :
            wire.sent[i].node = n /\ wire.sent[i].applied}

\* C27: when a replicated put returns success on a node with P peers, the
\* local node holds the value, every peer counted as successful has applied
\* the put, and the nodes that hold the value number at least
\* floor((P + 1) / 2) + 1.
C27_MajorityDurability ==
    (Returned("put") /\ ret.ok /\ call.replicate) =>
        /\ table[call.key].value = call.value
        /\ ret.nodes <= 1 + Cardinality(PeersHolding)
        /\ 1 + Cardinality(PeersHolding) >= ((nPeers + 1) \div 2) + 1

\* C28: when a replicated put returns the quorum failure, the local table is
\* what it was before the put and no peer has applied the put.
C28_NoResidue ==
    (Returned("put") /\ ret.error = "quorum") =>
        /\ table = pre.table
        /\ PeersHolding = {}
====
